---- MODULE Spec2Model ----
(***************************************************************************)
(* Health-gated prediction proxy (7.inference.py) and the sample probe     *)
(* loop (3.prometheus_exporter.py).                                        *)
(*                                                                         *)
(* The proxy is a threaded Flask application: every inbound request is a   *)
(* flow of its own, and the flows interleave at the points where the code  *)
(* blocks on the network or touches a process-wide metric.  The probe is a *)
(* separate process with its own gauges.                                   *)
(***************************************************************************)
EXTENDS Integers, Sequences, FiniteSets, TLC

(***************************************************************************)
(* Bounds                                                                  *)
(***************************************************************************)
NumReqs == 2
MaxTicks == 2

Reqs == 1..NumReqs

(***************************************************************************)
(* JSON values and raw bodies.  A raw body is a JSON value together with   *)
(* the way it is written out (separators); parsing forgets the writing,    *)
(* serialising fixes it.                                                   *)
(***************************************************************************)
JNum(n) == [t |-> "num", n |-> n]
JStr(s) == [t |-> "str", s |-> s]
JList(items) == [t |-> "list", items |-> items]
JPreds(items) == [t |-> "dict", key |-> "predictions", items |-> items]
JObj(key) == [t |-> "dict", key |-> key, items |-> <<>>]
JNull == [t |-> "null"]
JBool(b) == [t |-> "bool", b |-> b]

Raw(val, fmt) == [val |-> val, fmt |-> fmt]
NoRaw == [val |-> JNull, fmt |-> "none"]

\* response.json() / request.json on a well-formed body: the parsed value
ParseJson(raw) == raw.val

\* requests.post(..., json=data): json.dumps with the default separators
RequestsDumps(val) == Raw(val, "spaced")

\* flask.jsonify: compact separators
Jsonify(val) == Raw(val, "compact")

\* variant: the test is "data is None"
Truthy_OnlyNone(val) == val.t # "null"

\* Python truthiness of a parsed JSON value ("if not data")
Truthy(val) ==
    CASE val.t = "null" -> FALSE
      [] val.t = "bool" -> val.b
      [] val.t = "num" -> val.n # 0
      [] val.t = "str" -> val.s # ""
      [] val.t = "list" -> Len(val.items) > 0
      [] val.t = "dict" -> val.key # ""
      [] OTHER -> TRUE

Features == [t |-> "dict", key |-> "total_sqft", items |-> <<>>]
EmptyObj == [t |-> "dict", key |-> "", items |-> <<>>]

(***************************************************************************)
(* Inputs of the proxy                                                     *)
(***************************************************************************)
Routes == {"predict", "metrics", "health"}

\* what the client put in the request: nothing at all, a JSON content type
\* with zero bytes, bytes that are not JSON, or a JSON document
Bodies ==
    {[kind |-> "missing", raw |-> NoRaw],
     [kind |-> "empty", raw |-> NoRaw],
     [kind |-> "unparsable", raw |-> NoRaw],
     [kind |-> "json", raw |-> Raw(EmptyObj, "compact")],
     [kind |-> "json", raw |-> Raw(JList(<<>>), "compact")],
     [kind |-> "json", raw |-> Raw(JNum(0), "compact")],
     [kind |-> "json", raw |-> Raw(JBool(FALSE), "compact")],
     [kind |-> "json", raw |-> Raw(JNull, "compact")],
     [kind |-> "json", raw |-> Raw(Features, "compact")]}

NoBody == [kind |-> "none", raw |-> NoRaw]

\* outcomes of GET <backend>/ping with timeout=1
PingOutcomes == {"200", "500", "timeout", "neterror"}

\* outcomes of POST <backend>/predict as seen by requests.post
ProxyResponses ==
    {Raw(JList(<<JNum(55)>>), "compact"),
     Raw(JPreds(<<JNum(55)>>), "spaced")}

\* a success is a 200 carrying the compact list or a 201 carrying the
\* spaced object; the failures carry no body the handler reads
FwdOutcomes ==
    {o \in [kind : {"ok"}, code : {200, 201}, raw : ProxyResponses] :
        o.code = 201 <=> o.raw.fmt = "spaced"}
    \cup [kind : {"nonjson"}, code : {200}, raw : {NoRaw}]
    \cup [kind : {"http_error"}, code : {404, 500}, raw : {NoRaw}]
    \cup [kind : {"conn_error"}, code : {0}, raw : {NoRaw}]

NoFwd == [kind |-> "none", code |-> 0, raw |-> NoRaw]

(***************************************************************************)
(* State                                                                   *)
(***************************************************************************)
VARIABLES
    MLFLOW_SERVE_STATUS,          \* gauge, 1 reachable / 0 unreachable
    PREDICTIONS_TOTAL,            \* counter
    PREDICTION_DURATION_SECONDS,  \* histogram: number of observations
    req,                          \* per inbound request: position and history
    pendingPings,                 \* pings in flight, in the order they were sent
    lastCheck,                    \* the health check that completed last
    LAST_PREDICTION_VALUE,        \* probe gauge
    LATENCY_EXPORTER,             \* probe gauge
    MLFLOW_SERVE_STATUS_EXPORTER, \* probe gauge, 1 reachable / 0 unreachable
    probe                         \* the probe loop: position and history

proxyVars == <<MLFLOW_SERVE_STATUS, PREDICTIONS_TOTAL, PREDICTION_DURATION_SECONDS, req,
               pendingPings, lastCheck>>
probeVars == <<LAST_PREDICTION_VALUE, LATENCY_EXPORTER, MLFLOW_SERVE_STATUS_EXPORTER, probe>>
vars == <<proxyVars, probeVars>>

NoExc == [cls |-> "none", code |-> 0]
NoSnap == [status |-> 0, result |-> "none"]
NoCheck == [result |-> "none", overtook |-> {}, stale |-> FALSE]

NewReq ==
    [pc |-> "idle", route |-> "none", body |-> NoBody,
     ping |-> "none", healthy |-> "none",
     fwd |-> NoFwd, sent |-> NoRaw,
     exc |-> NoExc, status |-> 0, resp |-> NoRaw, raised |-> FALSE,
     msg |-> "none", snap |-> NoSnap,
     pings |-> 0, writes |-> 0, forwards |-> 0, incs |-> 0, obs |-> 0]

NoOut == [kind |-> "none", code |-> 0, val |-> JNull]
NoRet == [pred |-> JNull, lat |-> 0]

NewProbe ==
    [pc |-> "load", tick |-> 1, file |-> "none", out |-> NoOut,
     ret |-> NoRet, fail |-> "none", posts |-> 0, loads |-> 0,
     prevLast |-> 0, prevLat |-> 0, prevStatus |-> 0, prevFail |-> "none"]

Init ==
    /\ MLFLOW_SERVE_STATUS = 0
    /\ PREDICTIONS_TOTAL = 0
    /\ PREDICTION_DURATION_SECONDS = 0
    /\ req = [r \in Reqs |-> NewReq]
    /\ pendingPings = <<>>
    /\ lastCheck = NoCheck
    /\ LAST_PREDICTION_VALUE = 0
    /\ LATENCY_EXPORTER = 0
    /\ MLFLOW_SERVE_STATUS_EXPORTER = 0
    /\ probe = NewProbe

(***************************************************************************)
(* check_mlflow_serve_health                                               *)
(***************************************************************************)
\* variant: the except clause sets the gauge to 1
HealthGauge_ExceptSetsOne(outcome) ==
    IF outcome = "500" THEN 0 ELSE 1

\* variant: the status code of the ping response is not looked at
HealthReturn_AnyResponse(outcome) ==
    IF outcome \in {"200", "500"} THEN "true" ELSE "false"

\* what the function returns for a ping outcome: "true", "false", or
\* "raise" if an exception would leave the function
HealthReturn(outcome) ==
    IF outcome = "200" THEN "true" ELSE "false"

\* the value the function writes to the gauge for a ping outcome
HealthGauge(outcome) ==
    IF outcome = "200" THEN 1 ELSE 0

(***************************************************************************)
(* predict: decisions                                                      *)
(***************************************************************************)
\* variant: the return value of the health check is ignored
AfterHealth_NoGate(healthy) == "parse"

\* where predict() goes once the health check has returned
AfterHealth(healthy) ==
    IF healthy = "true" THEN "parse" ELSE "respond503"

\* request.json: the parsed value, None, or an HTTP exception raised by the
\* framework.  A request without a JSON content type yields None or raises,
\* depending on the framework release.
RequestJsonResults(body) ==
    CASE body.kind = "missing" -> {[r |-> "none", val |-> JNull], [r |-> "raise", val |-> JNull]}
      [] body.kind = "empty" -> {[r |-> "raise", val |-> JNull]}
      [] body.kind = "unparsable" -> {[r |-> "raise", val |-> JNull]}
      [] OTHER -> {[r |-> "value", val |-> ParseJson(body.raw)]}

\* werkzeug's HTTPException is an Exception and no RequestException
HttpException == [cls |-> "Exception", code |-> 0]

\* variant: raise_for_status() is not called, an error status passes
FwdExceptions_NoRaiseForStatus(out) ==
    CASE out.kind = "conn_error" -> {[cls |-> "RequestException", code |-> 0]}
      [] out.kind = "nonjson" -> {[cls |-> "RequestException", code |-> 0],
                                  [cls |-> "Exception", code |-> 0]}
      [] OTHER -> {}

\* the exceptions lines 64-67 can raise for a backend outcome; a 2xx body
\* that is not JSON raises a RequestException subclass or a ValueError,
\* depending on the HTTP library release
FwdExceptions(out) ==
    CASE out.kind = "http_error" -> {[cls |-> "HTTPError", code |-> out.code]}
      [] out.kind = "conn_error" -> {[cls |-> "RequestException", code |-> 0]}
      [] out.kind = "nonjson" -> {[cls |-> "RequestException", code |-> 0],
                                  [cls |-> "Exception", code |-> 0]}
      [] OTHER -> {}

\* variant: the RequestException clause comes first and takes HTTPError too
ExceptStatus_BroadFirst(exc) ==
    CASE exc.cls \in {"HTTPError", "RequestException"} -> 503
      [] OTHER -> 500

\* the except clauses of predict()
ExceptStatus(exc) ==
    CASE exc.cls = "HTTPError" -> exc.code
      [] exc.cls = "RequestException" -> 503
      [] OTHER -> 500

\* variant: an increment that is lost
CounterInc_Lost(c) == c

\* PREDICTIONS_TOTAL.inc()
CounterInc(c) == c + 1

\* variant: an observation that is lost
HistObserve_Lost(h) == h

\* PREDICTION_DURATION_SECONDS.observe(...)
HistObserve(h) == h + 1

\* the status and the body predict() returns on success
SuccessStatus(out) == 200
SuccessBody(out) == Jsonify(ParseJson(out.raw))

\* variant: the payload is wrapped under "inputs", as the probe does
ForwardPayload_Wrapped(data) ==
    RequestsDumps([t |-> "dict", key |-> "inputs", items |-> <<data>>])

\* what predict() puts on the wire for the backend
ForwardPayload(data) == RequestsDumps(data)

(***************************************************************************)
(* Actions of the proxy                                                    *)
(***************************************************************************)
Set(r, rec) == req' = [req EXCEPT ![r] = rec]

\* the pings sent before r's that are still in flight
SentBefore(r) ==
    {pendingPings[i] : i \in {j \in 1..Len(pendingPings) :
                                \E k \in (j+1)..Len(pendingPings) : pendingPings[k] = r}}

Without(seq, r) == SelectSeq(seq, LAMBDA x : x # r)

\* variant: the metrics handler only reads the registry
FirstStep_MetricsReadOnly(route) ==
    IF route = "metrics" THEN "snapshot" ELSE "check"

\* the first statement of each handler calls check_mlflow_serve_health
FirstStep(route) == "check"

\* a request arrives and its handler is entered; all three handlers start
\* by calling check_mlflow_serve_health
Receive(r) ==
    /\ req[r].pc = "idle"
    /\ \E route \in Routes, body \in Bodies :
        /\ route # "predict" => body.kind = "missing"
        /\ Set(r, [req[r] EXCEPT !.pc = FirstStep(route), !.route = route, !.body = body])
    /\ UNCHANGED <<MLFLOW_SERVE_STATUS, PREDICTIONS_TOTAL, PREDICTION_DURATION_SECONDS, pendingPings, lastCheck, probeVars>>

\* check_mlflow_serve_health: requests.get(.../ping, timeout=1) is sent
PingIssue(r) ==
    /\ req[r].pc = "check"
    /\ Set(r, [req[r] EXCEPT !.pc = "pinging", !.pings = @ + 1])
    /\ pendingPings' = Append(pendingPings, r)
    /\ UNCHANGED <<MLFLOW_SERVE_STATUS, PREDICTIONS_TOTAL, PREDICTION_DURATION_SECONDS, lastCheck, probeVars>>

\* variant: the health handler answers 200 whatever the check returned
HandlerNext_HealthAlways200(route, ret) ==
    CASE ret = "raise" -> [pc |-> "done", status |-> 500, msg |-> "none"]
      [] route = "predict" /\ AfterHealth(ret) = "parse" ->
            [pc |-> "parse", status |-> 0, msg |-> "none"]
      [] route = "predict" -> [pc |-> "done", status |-> 503, msg |-> "error"]
      [] route = "metrics" -> [pc |-> "snapshot", status |-> 0, msg |-> "none"]
      [] OTHER -> [pc |-> "done", status |-> 200, msg |-> "reachable"]

\* where each handler goes with the health check's return value
HandlerNext(route, ret) ==
    CASE ret = "raise" -> [pc |-> "done", status |-> 500, msg |-> "none"]
      [] route = "predict" /\ AfterHealth(ret) = "parse" ->
            [pc |-> "parse", status |-> 0, msg |-> "none"]
      [] route = "predict" -> [pc |-> "done", status |-> 503, msg |-> "error"]
      [] route = "metrics" -> [pc |-> "snapshot", status |-> 0, msg |-> "none"]
      [] ret = "true" -> [pc |-> "done", status |-> 200, msg |-> "reachable"]
      [] OTHER -> [pc |-> "done", status |-> 503, msg |-> "unreachable"]

\* check_mlflow_serve_health: the ping ends (response, timeout or network
\* error), the gauge is set and the function returns to the handler
PingComplete(r) ==
    /\ req[r].pc = "pinging"
    /\ \E outcome \in PingOutcomes :
        LET ret == HealthReturn(outcome)
            nxt == HandlerNext(req[r].route, ret)
        IN  /\ IF ret = "raise"
               THEN UNCHANGED MLFLOW_SERVE_STATUS
               ELSE MLFLOW_SERVE_STATUS' = HealthGauge(outcome)
            /\ Set(r, [req[r] EXCEPT !.pc = nxt.pc, !.status = nxt.status,
                                     !.msg = nxt.msg,
                                     !.ping = outcome, !.healthy = ret,
                                     !.raised = (ret = "raise"),
                                     !.writes = IF ret = "raise" THEN @ ELSE @ + 1])
            /\ lastCheck' = [result |-> ret, overtook |-> SentBefore(r),
                             stale |-> r \in lastCheck.overtook]
    /\ pendingPings' = Without(pendingPings, r)
    /\ UNCHANGED <<PREDICTIONS_TOTAL, PREDICTION_DURATION_SECONDS, probeVars>>

\* predict, lines 56-64: read request.json, reject a falsy value, otherwise
\* send the POST to the backend
ParseBody(r) ==
    /\ req[r].pc = "parse"
    /\ \E res \in RequestJsonResults(req[r].body) :
        IF res.r = "raise"
        THEN Set(r, [req[r] EXCEPT !.pc = "done", !.exc = HttpException,
                                   !.status = ExceptStatus(HttpException)])
        ELSE IF res.r = "none" \/ ~Truthy(res.val)
        THEN Set(r, [req[r] EXCEPT !.pc = "done", !.status = 400])
        ELSE Set(r, [req[r] EXCEPT !.pc = "posting", !.forwards = @ + 1,
                                   !.sent = ForwardPayload(res.val)])
    /\ UNCHANGED <<MLFLOW_SERVE_STATUS, PREDICTIONS_TOTAL, PREDICTION_DURATION_SECONDS, pendingPings, lastCheck, probeVars>>

\* predict, lines 64-67 and 76-86: the POST ends; raise_for_status and
\* response.json either pass or raise into one of the except clauses
PostComplete(r) ==
    /\ req[r].pc = "posting"
    /\ \E out \in FwdOutcomes :
        IF FwdExceptions(out) = {}
        THEN Set(r, [req[r] EXCEPT !.pc = "inc", !.fwd = out])
        ELSE \E exc \in FwdExceptions(out) :
                Set(r, [req[r] EXCEPT !.pc = "done", !.fwd = out, !.exc = exc,
                                      !.status = ExceptStatus(exc)])
    /\ UNCHANGED <<MLFLOW_SERVE_STATUS, PREDICTIONS_TOTAL, PREDICTION_DURATION_SECONDS, pendingPings, lastCheck, probeVars>>

\* predict, line 69
IncPredictions(r) ==
    /\ req[r].pc = "inc"
    /\ PREDICTIONS_TOTAL' = CounterInc(PREDICTIONS_TOTAL)
    /\ Set(r, [req[r] EXCEPT !.pc = "observe",
                             !.incs = @ + (PREDICTIONS_TOTAL' - PREDICTIONS_TOTAL)])
    /\ UNCHANGED <<MLFLOW_SERVE_STATUS, PREDICTION_DURATION_SECONDS, pendingPings, lastCheck, probeVars>>

\* predict, lines 71-75
ObserveAndRespond(r) ==
    /\ req[r].pc = "observe"
    /\ PREDICTION_DURATION_SECONDS' = HistObserve(PREDICTION_DURATION_SECONDS)
    /\ Set(r, [req[r] EXCEPT !.pc = "done",
                             !.obs = @ + (PREDICTION_DURATION_SECONDS' - PREDICTION_DURATION_SECONDS),
                             !.status = SuccessStatus(req[r].fwd),
                             !.resp = SuccessBody(req[r].fwd)])
    /\ UNCHANGED <<MLFLOW_SERVE_STATUS, PREDICTIONS_TOTAL, pendingPings, lastCheck, probeVars>>

\* metrics, line 92: generate_latest() after the health check
Snapshot(r) ==
    /\ req[r].pc = "snapshot"
    /\ Set(r, [req[r] EXCEPT !.pc = "done", !.status = 200,
                             !.snap = [status |-> MLFLOW_SERVE_STATUS,
                                       result |-> lastCheck.result]])
    /\ UNCHANGED <<MLFLOW_SERVE_STATUS, PREDICTIONS_TOTAL, PREDICTION_DURATION_SECONDS, pendingPings, lastCheck, probeVars>>

(***************************************************************************)
(* Inputs of the probe                                                     *)
(***************************************************************************)
\* dummy_input.json: a readable JSON document, absent, not JSON, unreadable
FileStates == {"ok", "missing", "badjson", "ioerror"}

SampleData == JList(<<Features>>)

\* bodies the backend may send with a success status
ProbeResponses ==
    {JList(<<JNum(7)>>), JList(<<JNum(9)>>), JPreds(<<JNum(7)>>), JNum(7),
     JPreds(<<JNum(9)>>), JNum(9),
     JList(<<>>), JPreds(<<>>), JObj("error"), JNull, JStr("7"),
     JList(<<JStr("7")>>), JList(<<JStr("abc")>>),
     JList(<<JList(<<JNum(7)>>)>>), JList(<<JNull>>)}

ProbeOutcomes ==
    [kind : {"ok"}, code : {200}, val : ProbeResponses]
    \cup [kind : {"nonjson"}, code : {200}, val : {JNull}]
    \cup [kind : {"http_error"}, code : {404, 500}, val : {JNull}]
    \cup [kind : {"conn_error"}, code : {0}, val : {JNull}]

\* (time.time() - start_time) * 1000
Latencies == {12, 30}

(***************************************************************************)
(* get_sample_prediction_from_api                                          *)
(***************************************************************************)
\* variant: a missing file falls back to the hardcoded sample
LoadSample_Fallback(file) ==
    IF file \in {"ok", "missing"} THEN [ok |-> TRUE, data |-> SampleData]
    ELSE [ok |-> FALSE, data |-> JNull]

\* lines 27-49: the sample is loaded only from a readable, well-formed file
LoadSample(file) ==
    IF file = "ok" THEN [ok |-> TRUE, data |-> SampleData]
    ELSE [ok |-> FALSE, data |-> JNull]

\* line 56: the sample goes out under the "inputs" key
ProbePayload(sample) ==
    RequestsDumps([t |-> "dict", key |-> "inputs", items |-> <<sample>>])

\* Python float(): numbers and numeric strings convert, the rest raises
NumericStrings == {"7"}
StrValue(str) == IF str = "7" THEN 7 ELSE 0

PyFloat(val) ==
    CASE val.t = "num" -> [ok |-> TRUE, n |-> val.n]
      [] val.t = "str" /\ val.s \in NumericStrings -> [ok |-> TRUE, n |-> StrValue(val.s)]
      [] OTHER -> [ok |-> FALSE, n |-> 0]

\* variant: the "predictions" entry is returned whole, not its element 0
Normalize_WholeEntry(val) ==
    CASE val.t = "list" ->
            IF Len(val.items) > 0 THEN [ok |-> TRUE, pred |-> val.items[1]]
            ELSE [ok |-> FALSE, pred |-> JNull]
      [] val.t = "dict" /\ val.key = "predictions" ->
            [ok |-> TRUE, pred |-> JList(val.items)]
      [] OTHER ->
            IF PyFloat(val).ok THEN [ok |-> TRUE, pred |-> JNum(PyFloat(val).n)]
            ELSE [ok |-> FALSE, pred |-> JNull]

\* lines 66-72: element 0 of a list, element 0 of the "predictions" entry
\* of a dict, else float() of the whole value; ok is FALSE when the
\* expression raises
Normalize(val) ==
    CASE val.t = "list" ->
            IF Len(val.items) > 0 THEN [ok |-> TRUE, pred |-> val.items[1]]
            ELSE [ok |-> FALSE, pred |-> JNull]
      [] val.t = "dict" /\ val.key = "predictions" ->
            IF Len(val.items) > 0 THEN [ok |-> TRUE, pred |-> val.items[1]]
            ELSE [ok |-> FALSE, pred |-> JNull]
      [] OTHER ->
            IF PyFloat(val).ok THEN [ok |-> TRUE, pred |-> JNum(PyFloat(val).n)]
            ELSE [ok |-> FALSE, pred |-> JNull]

\* the exceptions lines 58-61 can raise for a backend outcome
ProbeExceptions(out) ==
    CASE out.kind = "http_error" -> {"RequestException"}
      [] out.kind = "conn_error" -> {"RequestException"}
      [] out.kind = "nonjson" -> {"RequestException", "Exception"}
      [] OTHER -> {}

\* variant: the RequestException clause does not reset the gauge
ExceptGauge_NoReset(exc, gauge) == gauge

\* the gauge after the except clause that catches exc (lines 74-84)
ExceptGauge(exc, gauge) ==
    IF exc = "RequestException" THEN 0 ELSE gauge

\* line 64
SuccessGauge(gauge) == 1

\* `{prediction:.2f}` formats numbers only
FormatOk(val) == val.t = "num"

(***************************************************************************)
(* Actions of the probe                                                    *)
(***************************************************************************)
\* lines 91, 25-58: a tick starts, the sample file is read and, if that
\* worked, the POST is sent
TickLoad ==
    /\ probe.pc = "load"
    /\ \E file \in FileStates :
        LET loaded == LoadSample(file)
            started == [probe EXCEPT !.file = file, !.out = NoOut, !.ret = NoRet,
                                     !.posts = 0, !.fail = "none",
                                     !.loads = @ + 1, !.prevFail = probe.fail,
                                     !.prevLast = LAST_PREDICTION_VALUE,
                                     !.prevLat = LATENCY_EXPORTER,
                                     !.prevStatus = MLFLOW_SERVE_STATUS_EXPORTER]
        IN  IF loaded.ok
            THEN probe' = [started EXCEPT !.pc = "posting", !.posts = 1]
            ELSE probe' = [started EXCEPT !.pc = "report", !.fail = "load"]
    /\ UNCHANGED <<LAST_PREDICTION_VALUE, LATENCY_EXPORTER, MLFLOW_SERVE_STATUS_EXPORTER, proxyVars>>

\* lines 58-84: the POST ends; status gauge, normalisation, return value
ProbePostComplete ==
    /\ probe.pc = "posting"
    /\ \E out \in ProbeOutcomes, lat \in Latencies :
        IF ProbeExceptions(out) # {}
        THEN \E exc \in ProbeExceptions(out) :
                /\ MLFLOW_SERVE_STATUS_EXPORTER' = ExceptGauge(exc, MLFLOW_SERVE_STATUS_EXPORTER)
                /\ probe' = [probe EXCEPT !.pc = "report", !.out = out, !.ret = NoRet,
                                          !.fail = IF out.kind = "http_error" THEN "http"
                                                   ELSE IF out.kind = "conn_error" THEN "transport"
                                                   ELSE "nonjson"]
        ELSE LET norm == Normalize(out.val)
             IN  /\ MLFLOW_SERVE_STATUS_EXPORTER' =
                        ExceptGauge(IF norm.ok THEN "none" ELSE "Exception",
                                    SuccessGauge(MLFLOW_SERVE_STATUS_EXPORTER))
                 /\ probe' = [probe EXCEPT !.pc = "report", !.out = out,
                                           !.ret = IF norm.ok THEN [pred |-> norm.pred, lat |-> lat]
                                                   ELSE NoRet,
                                           !.fail = IF norm.ok THEN "none" ELSE "normalize"]
    /\ UNCHANGED <<LAST_PREDICTION_VALUE, LATENCY_EXPORTER, proxyVars>>

\* line 58: requests.post is called without a timeout; a backend that
\* accepts the connection and never answers leaves the call blocked
BackendStalls ==
    /\ probe.pc = "posting"
    /\ probe' = [probe EXCEPT !.pc = "blocked",
                              !.out = [kind |-> "stall", code |-> 0, val |-> JNull]]
    /\ UNCHANGED <<LAST_PREDICTION_VALUE, LATENCY_EXPORTER, MLFLOW_SERVE_STATUS_EXPORTER, proxyVars>>

\* variant: a failed tick resets the gauges
ReportResult_ResetOnFailure(ret, last, lat) ==
    IF ret.pred = JNull
    THEN [pc |-> "sleep", last |-> 0, lat |-> 0]
    ELSE IF ~PyFloat(ret.pred).ok
    THEN [pc |-> "crashed", last |-> last, lat |-> lat]
    ELSE [pc |-> IF FormatOk(ret.pred) THEN "sleep" ELSE "crashed",
          last |-> PyFloat(ret.pred).n, lat |-> ret.lat]

\* lines 92-97: the loop body after the call.  Gauge.set applies float()
\* to its argument; an exception here is caught by nothing.
ReportResult(ret, last, lat) ==
    IF ret.pred = JNull
    THEN [pc |-> "sleep", last |-> last, lat |-> lat]
    ELSE IF ~PyFloat(ret.pred).ok
    THEN [pc |-> "crashed", last |-> last, lat |-> lat]
    ELSE [pc |-> IF FormatOk(ret.pred) THEN "sleep" ELSE "crashed",
          last |-> PyFloat(ret.pred).n, lat |-> ret.lat]

MainReport ==
    /\ probe.pc = "report"
    /\ LET res == ReportResult(probe.ret, LAST_PREDICTION_VALUE, LATENCY_EXPORTER)
       IN  /\ LAST_PREDICTION_VALUE' = res.last
           /\ LATENCY_EXPORTER' = res.lat
           /\ probe' = [probe EXCEPT !.pc = res.pc]
    /\ UNCHANGED <<MLFLOW_SERVE_STATUS_EXPORTER, proxyVars>>

\* line 98 and back to line 90
Wake ==
    /\ probe.pc = "sleep"
    /\ probe.tick < MaxTicks
    /\ probe' = [probe EXCEPT !.pc = "load", !.tick = @ + 1]
    /\ UNCHANGED <<LAST_PREDICTION_VALUE, LATENCY_EXPORTER, MLFLOW_SERVE_STATUS_EXPORTER, proxyVars>>

ProbeNext ==
    \/ TickLoad
    \/ ProbePostComplete
    \/ BackendStalls
    \/ MainReport
    \/ Wake

ProbeSpec == Init /\ [][ProbeNext]_vars

\* the probe is one sequential thread: each of its steps is taken once it
\* can be; a response arrives whenever the backend sends one
ProbeLiveSpec ==
    /\ ProbeSpec
    /\ WF_vars(TickLoad)
    /\ WF_vars(ProbePostComplete)
    /\ WF_vars(MainReport)
    /\ WF_vars(Wake)

Next ==
    \E r \in Reqs :
        \/ Receive(r)
        \/ PingIssue(r)
        \/ PingComplete(r)
        \/ ParseBody(r)
        \/ PostComplete(r)
        \/ IncPredictions(r)
        \/ ObserveAndRespond(r)
        \/ Snapshot(r)

Spec == Init /\ [][Next]_vars

(***************************************************************************)
(* Properties of the proxy                                                 *)
(***************************************************************************)
Predicts == {r \in Reqs : req[r].route = "predict"}
Done(r) == req[r].pc = "done"

\* C1: a POST /predict whose body is empty, missing or unparsable is
\* answered 400 without the health checker being invoked: no ping is
\* issued and the request does not write BackendStatus.
C1_MalformedBodyBypassesHealthCheck ==
    \A r \in Predicts :
        req[r].body.kind \in {"missing", "empty", "unparsable"} =>
            /\ req[r].pings = 0
            /\ req[r].writes = 0
            /\ Done(r) => req[r].status = 400

\* C2: a POST /predict whose health check reports unreachable is answered
\* 503 at once, with no forward issued, no increment of the counter and no
\* observation in the histogram by that request.
C2_UnhealthyAnswers503 ==
    \A r \in Predicts :
        req[r].healthy = "false" =>
            /\ Done(r)
            /\ req[r].status = 503
            /\ req[r].forwards = 0
            /\ req[r].incs = 0
            /\ req[r].obs = 0

C2_Witness ==
    \E r, q \in Predicts :
        /\ req[r].healthy = "false" /\ req[r].ping = "timeout" /\ Done(r)
        /\ req[q].incs = 1 /\ PREDICTIONS_TOTAL = 1

\* C3: every successful forward adds exactly 1 to the counter and exactly
\* one observation to the histogram, whatever the interleaving: the counter
\* is the number of successful forwards past the increment, the histogram
\* count the number of those that have responded, so both equal N once N
\* successful forwards have responded and none is in between.
Counted == {r \in Predicts : req[r].fwd.kind = "ok" /\ req[r].pc \in {"observe", "done"}}
Responded == {r \in Predicts : req[r].fwd.kind = "ok" /\ Done(r)}

C3_OneIncrementOneObservation ==
    /\ PREDICTIONS_TOTAL = Cardinality(Counted)
    /\ PREDICTION_DURATION_SECONDS = Cardinality(Responded)
    /\ \A r \in Responded : req[r].incs = 1 /\ req[r].obs = 1

C3_Witness ==
    /\ Cardinality(Responded) = 2
    /\ PREDICTIONS_TOTAL = 2
    /\ PREDICTION_DURATION_SECONDS = 2

\* C4: the counter is incremented only after a successful backend
\* response: a request whose forward ended in an HTTP error, a connection
\* failure or any other failure, or that never forwarded, has incremented
\* nothing, and the counter never exceeds the number of forwards that got
\* a successful response.
C4_CountedOnlyAfterSuccess ==
    /\ PREDICTIONS_TOTAL <= Cardinality({r \in Predicts : req[r].fwd.kind = "ok"})
    /\ \A r \in Reqs : req[r].fwd.kind # "ok" => req[r].incs = 0
    /\ \A r \in Reqs : req[r].pc \in {"posting", "inc"} => req[r].incs = 0

C4_Witness ==
    \E r, q \in Predicts :
        /\ Done(r) /\ req[r].fwd.kind = "http_error" /\ req[r].incs = 0
        /\ Done(q) /\ req[q].fwd.kind = "ok"
        /\ PREDICTIONS_TOTAL = 1

C6_ConnFailureSetsUnreachable ==
    [][\A r \in Reqs :
        (req[r].pc = "posting" /\ req'[r].pc = "done" /\ req'[r].fwd.kind = "conn_error") =>
            (req'[r].status = 503 /\ MLFLOW_SERVE_STATUS' = 0)]_vars

\* C7: the health check returns true exactly when the ping answered 200;
\* for every outcome (200, other status, timeout, network error) it sets
\* BackendStatus to the boolean it returns and raises nothing.
C7_HealthCheckSetsWhatItReturns ==
    [][\A r \in Reqs :
        (req[r].pc = "pinging" /\ req'[r].pc # "pinging") =>
            /\ req'[r].healthy \in {"true", "false"}
            /\ ~req'[r].raised
            /\ req'[r].healthy = "true" <=> req'[r].ping = "200"
            /\ MLFLOW_SERVE_STATUS' = (IF req'[r].healthy = "true" THEN 1 ELSE 0)
            /\ req'[r].writes = req[r].writes + 1]_vars

C7_Witness ==
    \E r, q \in Reqs :
        /\ req[r].ping = "timeout" /\ req[r].healthy = "false"
        /\ req[q].ping = "200" /\ req[q].healthy = "true"
        /\ MLFLOW_SERVE_STATUS = 0

\* C8 as stated: on a successful forward the client receives the backend's
\* raw body and the backend's status unchanged, and the backend receives
\* the client's payload verbatim.
C8_RawPassthrough ==
    \A r \in Predicts :
        (Done(r) /\ req[r].fwd.kind = "ok") =>
            /\ req[r].resp = req[r].fwd.raw
            /\ req[r].status = req[r].fwd.code
            /\ req[r].sent = req[r].body.raw

\* C8 amended: on a successful forward the client receives status 200,
\* whatever success status the backend sent, and a body that is the
\* backend's JSON value serialised anew; the backend receives the JSON
\* value of the client's payload serialised anew, neither wrapped under an
\* envelope field nor normalized.
C8_JsonValuePassthrough ==
    \A r \in Predicts :
        /\ (Done(r) /\ req[r].fwd.kind = "ok") =>
            /\ ParseJson(req[r].resp) = ParseJson(req[r].fwd.raw)
            /\ req[r].resp = Jsonify(ParseJson(req[r].fwd.raw))
            /\ req[r].status = 200
        /\ req[r].forwards = 1 =>
            /\ ParseJson(req[r].sent) = ParseJson(req[r].body.raw)
            /\ req[r].sent = RequestsDumps(ParseJson(req[r].body.raw))

C8_Witness ==
    \E r \in Predicts :
        /\ Done(r) /\ req[r].fwd.kind = "ok"
        /\ req[r].fwd.code = 201 /\ req[r].status = 200
        /\ req[r].fwd.raw.fmt = "spaced" /\ req[r].resp.fmt = "compact"
        /\ req[r].body.raw.fmt = "compact" /\ req[r].sent.fmt = "spaced"

\* C14: GET /health runs a health check of its own and answers 200 with
\* the reachable message exactly when that check succeeded, 503 with the
\* unreachable message otherwise, whatever BackendStatus holds.
Healths == {r \in Reqs : req[r].route = "health"}

C14_HealthAnswersItsOwnCheck ==
    \A r \in Healths :
        Done(r) =>
            /\ req[r].pings = 1
            /\ req[r].writes = 1
            /\ req[r].status \in {200, 503}
            /\ req[r].status = 200 <=> req[r].ping = "200"
            /\ req[r].msg = (IF req[r].status = 200 THEN "reachable" ELSE "unreachable")

C14_Witness ==
    \E r \in Healths :
        /\ Done(r) /\ req[r].ping = "neterror"
        /\ req[r].status = 503 /\ req[r].msg = "unreachable"
        /\ MLFLOW_SERVE_STATUS = 1

\* C15: under every interleaving of health checks BackendStatus is the
\* result of the check that completed last, not of the one that started
\* last; so an earlier-started slow check can overwrite the result of a
\* later-started check that has already completed.
Checked == {r \in Reqs : req[r].healthy # "none"}

C15_StatusIsLastCompletedCheck ==
    /\ MLFLOW_SERVE_STATUS = (IF lastCheck.result = "true" THEN 1 ELSE 0)
    /\ lastCheck.result = "none" <=> Checked = {}
    /\ lastCheck.result # "none" => \E r \in Checked : req[r].healthy = lastCheck.result

C15_Witness ==
    /\ lastCheck.stale
    /\ lastCheck.result = "false"
    /\ MLFLOW_SERVE_STATUS = 0
    /\ Cardinality(Checked) = 2
    /\ \E r, q \in Checked : req[r].healthy = "false" /\ req[q].healthy = "true"

\* C16: a POST /predict issues at most one forward, none again after a
\* failure, and only after its own health check has returned true; nothing
\* but that check decides on the backend's state whether a valid request is
\* forwarded, the stored BackendStatus is not consulted.
ValidBody(r) == req[r].body.kind = "json" /\ ParseJson(req[r].body.raw) = Features

C16_OneForwardAfterOwnCheck ==
    \A r \in Reqs :
        /\ req[r].forwards <= 1
        /\ req[r].forwards = 1 =>
                req[r].route = "predict" /\ req[r].healthy = "true" /\ req[r].pings = 1
        /\ (req[r].route = "predict" /\ req[r].healthy = "true" /\ ValidBody(r)
                /\ req[r].pc # "parse") => req[r].forwards = 1
        /\ req[r].pings <= 1

C16_Witness ==
    \E r \in Predicts :
        /\ Done(r) /\ req[r].fwd.kind = "conn_error"
        /\ req[r].forwards = 1 /\ req[r].healthy = "true"
        /\ MLFLOW_SERVE_STATUS = 0

\* C18: the counter is never below the histogram's observation count,
\* exceeds it by at most the number of requests between the increment and
\* the observation, and equals it whenever no request is in flight.
Between == {r \in Reqs : req[r].pc = "observe"}
InFlight == {r \in Reqs : req[r].pc \notin {"idle", "done"}}

C18_CounterLeadsHistogram ==
    /\ PREDICTIONS_TOTAL >= PREDICTION_DURATION_SECONDS
    /\ PREDICTIONS_TOTAL - PREDICTION_DURATION_SECONDS <= Cardinality(Between)
    /\ InFlight = {} => PREDICTIONS_TOTAL = PREDICTION_DURATION_SECONDS

C18_Witness ==
    /\ Cardinality(Between) = 2
    /\ PREDICTIONS_TOTAL = 2
    /\ PREDICTION_DURATION_SECONDS = 0

\* C19: GET /metrics is not read-only: every scrape runs a health check
\* that completes and writes BackendStatus before the snapshot is made, so
\* the reachability value in the snapshot is that of the check completed
\* last at that moment, the scrape's own or a later one; no step of a
\* scrape changes the counter or the histogram.
Scrapes == {r \in Reqs : req[r].route = "metrics"}

C19_ScrapeChecksThenSnapshots ==
    [][\A r \in Reqs :
        req'[r].route = "metrics" =>
            /\ req'[r].pc \in {"snapshot", "done"} =>
                    req'[r].pings = 1 /\ req'[r].writes = 1
                    /\ req'[r].healthy \in {"true", "false"}
            /\ req'[r].pc = "done" =>
                    /\ req'[r].status = 200
                    /\ req'[r].snap.result \in {"true", "false"}
                    /\ req'[r].snap.status = (IF req'[r].snap.result = "true" THEN 1 ELSE 0)
            /\ (req[r].pc = "snapshot" /\ req'[r].pc = "done") =>
                    /\ req'[r].snap.status = MLFLOW_SERVE_STATUS
                    /\ req'[r].snap.result = lastCheck.result
            /\ req'[r] # req[r] =>
                    /\ PREDICTIONS_TOTAL' = PREDICTIONS_TOTAL
                    /\ PREDICTION_DURATION_SECONDS' = PREDICTION_DURATION_SECONDS]_vars

C19_Witness ==
    \E r \in Scrapes :
        /\ Done(r) /\ req[r].healthy = "true"
        /\ req[r].snap.result = "false" /\ req[r].snap.status = 0

\* C20: with the backend healthy, a POST /predict whose body parses to a
\* falsy JSON value (empty object, empty list, 0, false, null) is answered
\* 400, with no forward and with the counter and the histogram untouched.
FalsyValues == {EmptyObj, JList(<<>>), JNum(0), JBool(FALSE), JNull}
FalsyBody(r) == req[r].body.kind = "json" /\ ParseJson(req[r].body.raw) \in FalsyValues

C20_FalsyBodyIs400 ==
    \A r \in Predicts :
        (req[r].healthy = "true" /\ FalsyBody(r) /\ req[r].pc # "parse") =>
            /\ Done(r)
            /\ req[r].status = 400
            /\ req[r].exc = NoExc
            /\ req[r].forwards = 0
            /\ req[r].incs = 0
            /\ req[r].obs = 0

C20_Witness ==
    \E r, q \in Predicts :
        /\ Done(r) /\ req[r].healthy = "true" /\ req[r].status = 400
        /\ ParseJson(req[r].body.raw) = JBool(FALSE)
        /\ Done(q) /\ req[q].healthy = "true" /\ req[q].status = 400
        /\ ParseJson(req[q].body.raw) = JList(<<>>)

(***************************************************************************)
(* Properties of the probe                                                 *)
(***************************************************************************)
\* the call returned (None, None), or a prediction that is None
TickFailed == probe.pc \in {"report", "sleep"} /\ probe.ret.pred = JNull

\* C9: the probe loop never terminates on error: whatever the outcome of
\* a tick, a response whose first element is no number included, the loop
\* goes on to the sleep before the next tick.
C9_LoopNeverTerminates ==
    [][probe.pc = "report" => probe'.pc = "sleep"]_vars

\* C10: on a failed probe tick (load failure, transport failure, backend
\* HTTP error, normalization error) the last-prediction gauge and the
\* latency gauge keep the values they had before the tick.
C10_FailedTickKeepsGauges ==
    TickFailed =>
        /\ LAST_PREDICTION_VALUE = probe.prevLast
        /\ LATENCY_EXPORTER = probe.prevLat

C10_Witness ==
    /\ probe.tick = 2 /\ probe.pc = "sleep"
    /\ probe.fail = "normalize"
    /\ probe.prevLast = 7 /\ LAST_PREDICTION_VALUE = 7
    /\ probe.prevLat = 30 /\ LATENCY_EXPORTER = 30

\* C11 as stated: on a failed probe tick that reached the forwarder
\* (transport failure, backend HTTP error, normalization error) the
\* probe's reachability gauge is 0 when the tick ends.
ReachedForwarder == probe.pc \in {"report", "sleep"} /\ probe.posts = 1

C11_FailedForwardSetsUnreachable ==
    (ReachedForwarder /\ probe.fail \in {"transport", "http", "normalize"}) =>
        MLFLOW_SERVE_STATUS_EXPORTER = 0

\* C11 amended: on a failed probe tick whose POST ended in a transport
\* failure or a backend HTTP error the probe's reachability gauge is 0
\* when the tick ends; on a normalization error the backend has answered
\* with a success status and the gauge is 1 when the tick ends.
C11_GaugeFollowsTheCall ==
    ReachedForwarder =>
        /\ probe.fail \in {"transport", "http"} => MLFLOW_SERVE_STATUS_EXPORTER = 0
        /\ probe.fail = "normalize" => MLFLOW_SERVE_STATUS_EXPORTER = 1

C11_Witness ==
    /\ probe.tick = 2 /\ probe.pc = "sleep"
    /\ probe.fail = "http" /\ probe.out.code = 500
    /\ probe.prevStatus = 1
    /\ MLFLOW_SERVE_STATUS_EXPORTER = 0

\* C12: a tick whose sample file is missing or malformed is a load
\* failure, distinct from a backend failure: it sends nothing to the
\* backend and leaves the reachability gauge as it was, whereas a
\* transport failure sets the gauge to 0; the file is read again on every
\* tick, so also on the tick after a load failure.
C12_LoadFailureIsNotBackendFailure ==
    /\ (probe.pc # "load" /\ probe.file # "ok") =>
            /\ probe.fail = "load"
            /\ probe.posts = 0
            /\ probe.out = NoOut
            /\ probe.pc \in {"report", "sleep"}
            /\ probe.ret = NoRet
            /\ MLFLOW_SERVE_STATUS_EXPORTER = probe.prevStatus
    /\ (ReachedForwarder /\ probe.fail = "transport") =>
            MLFLOW_SERVE_STATUS_EXPORTER = 0
    /\ probe.loads = IF probe.pc = "load" THEN probe.tick - 1 ELSE probe.tick

C12_Witness ==
    /\ probe.tick = 2 /\ probe.prevFail = "load"
    /\ probe.file = "missing" /\ probe.pc = "sleep"
    /\ probe.loads = 2
    /\ MLFLOW_SERVE_STATUS_EXPORTER = 0

\* C13: normalization takes a sequence first, then an object with a
\* predictions field, then a bare scalar: for every numeric scalar v the
\* responses [v], {"predictions": [v]} and v all normalize to v; an empty
\* sequence, an empty predictions field, an object without predictions and
\* null yield a normalization failure, not a value.
Scalars == {7, 9}
Unrecognized == {JList(<<>>), JPreds(<<>>), JObj("error"), JNull}

C13_NormalizationPrecedence ==
    (probe.pc \in {"report", "sleep", "crashed"} /\ probe.out.kind = "ok") =>
        /\ \A v \in Scalars :
                probe.out.val \in {JList(<<JNum(v)>>), JPreds(<<JNum(v)>>), JNum(v)} =>
                    probe.ret.pred = JNum(v) /\ probe.fail = "none"
        /\ probe.out.val \in Unrecognized =>
                probe.ret = NoRet /\ probe.fail = "normalize"

C13_Witness ==
    /\ probe.tick = 2 /\ probe.pc = "report"
    /\ probe.out.val = JPreds(<<JNum(9)>>) /\ probe.ret.pred = JNum(9)
    /\ probe.prevFail = "normalize"

\* C17: every probe tick ends in progress or in an explicit skip whatever
\* the backend does, a backend that accepts the connection and never
\* responds included: the loop never hangs inside a tick, so the call of
\* every tick that reached the backend returns to the loop, which then
\* reports progress or the skip.
C17_TickNeverHangs ==
    (probe.pc = "posting") ~> (probe.pc = "report")

====
